---- MODULE Spec2Model ----
(***************************************************************************)
(* State-machine model of the GitHub App webhook receiver:                 *)
(*   src/main.py            handle_webhook                                 *)
(*   src/helpers/config.py  load_config, get_config_value                  *)
(*   src/helpers/utils.py   is_github_signature_valid, extract_*           *)
(*   src/helpers/install.py generate_jwt, get_installation_token,          *)
(*                          GitHubClient                                   *)
(*   src/helpers/pr.py      process_pull_request, process_pr_desc          *)
(*                                                                         *)
(* Deliveries are served one after the other: a new delivery is received   *)
(* once the background tasks of the previous one have ended.  Tasks of     *)
(* different deliveries share nothing but the configuration source, which  *)
(* the environment may change at any moment.  The tasks of one delivery    *)
(* run in the order in which handle_webhook added them, after the          *)
(* response has been produced.                                             *)
(***************************************************************************)
EXTENDS Integers, Sequences, FiniteSets, TLC

VARIABLES
    env,         \* the configuration source: the process environment
    startConfig, \* what load_config() returned when the process started
    readKeys,    \* the configuration keys the latest step has read from env
    envChanges,  \* number of changes made to the configuration source
    clock,       \* wall-clock time
    served,      \* number of deliveries received
    delivery,    \* the delivery being handled and handle_webhook's outcome
    queue,       \* background tasks added by handle_webhook, not yet started
    task,        \* the running background task and its GitHubClient
    log,         \* outbound calls made on behalf of the current delivery
    vq,          \* one call of is_github_signature_valid: arguments and result
    cq,          \* one call of load_config: the sources and what the caller finds
    kq,          \* one call of generate_jwt: the configured key and the key signed with
    dq           \* one call of format_pr_description: description and result

vars == <<env, startConfig, readKeys, envChanges, clock, served, delivery,
          queue, task, log, vq, cq, kq, dq>>

---------------------------------------------------------------------------
(* Bounds of the model *)

MaxDeliveries == 1
MaxEnvChanges == 1
MaxClock == 2
\* lifetime of an installation token, decided by the server
TokenLifetime == 1

---------------------------------------------------------------------------
(* Values *)

\* Python's None, where a string is expected
NoneStr == "<None>"

\* Python truthiness of an optional string: None and "" are falsy
Falsy(s) == s = NoneStr \/ s = ""

Secrets == {"", "s3cr3t", "other"}
Bodies == {"hello", "hellp"}

\* hmac.new(secret, payload, sha256).hexdigest(): HMAC-SHA256 as a keyed
\* digest without collisions, one hex string per (secret, body)
HmacSha256Hex(secret, body) ==
    CASE secret = "s3cr3t" /\ body = "hello" -> "88aab3ed"
      [] secret = "s3cr3t" /\ body = "hellp" -> "5c1f09b2"
      [] secret = "other"  /\ body = "hello" -> "e07d4a11"
      [] secret = "other"  /\ body = "hellp" -> "3b96c0fe"
      [] secret = ""       /\ body = "hello" -> "a1c5e2d7"
      [] OTHER                               -> "f4420b68"

\* f"sha256={hmac_gen.hexdigest()}": a string is the sequence of its parts
ExpectedSignature(secret, body) == <<"sha256=", HmacSha256Hex(secret, body)>>

\* headers.get("X-Hub-Signature-256"): absent (None) or a string
AbsentHeader == [present |-> FALSE, text |-> <<>>]
HeaderOf(text) == [present |-> TRUE, text |-> text]
SignatureHeaders ==
    {AbsentHeader, HeaderOf(<<>>)}
    \cup {HeaderOf(ExpectedSignature(s, b)) : s \in Secrets \ {""}, b \in Bodies}
    \cup {HeaderOf(<<"sha1=", HmacSha256Hex("s3cr3t", "hello")>>),
          HeaderOf(<<"sha256=">>)}

\* hmac.compare_digest(a, b)
CompareDigest(a, b) == a = b

---------------------------------------------------------------------------
(* Configuration: src/helpers/config.py *)

DefaultApiBase == "https://api.github.com"

ConfigKeys == {"app_id", "private_key", "webhook_secret", "check_signature",
               "auto_pr_review", "edit_pr_desc", "api_base_url"}

\* load_config(), default branch: every key is computed from the environment
\* at the moment of the call
load_config == env

\* get_config_value(key): loads the whole configuration again and picks key
get_config_value(key) == load_config[key]

\* The values the environment can give each string setting
StringSettings(key) ==
    CASE key = "app_id"         -> {"", "12345"}
      [] key = "private_key"    -> {"", "pem"}
      [] key = "webhook_secret" -> {"", "s3cr3t"}
      [] key = "api_base_url"   -> {DefaultApiBase, "https://ghe.example/api/v3"}

StringKeys == {"app_id", "private_key", "webhook_secret", "api_base_url"}
BooleanKeys == {"check_signature", "auto_pr_review", "edit_pr_desc"}

\* The configurations the process starts with: credentials present, the
\* review and description settings at their defaults, signature checking and
\* the secret as the operator set them.  ChangeEnv reaches the others.
StartConfigs ==
    [app_id : {"12345"}, private_key : {"pem"},
     webhook_secret : {"", "s3cr3t"},
     check_signature : BOOLEAN, auto_pr_review : {TRUE},
     edit_pr_desc : {TRUE}, api_base_url : {DefaultApiBase}]

\* The settings with a documented default
DefaultedKeys == {"check_signature", "auto_pr_review", "edit_pr_desc",
                  "api_base_url"}

\* The three sources of load_config.  GITHUB_APP_CONFIG and config.json are
\* "absent", "invalid" (not parseable) or "json", a JSON object giving the
\* settings blobKeys / fileKeys; varKeys are the settings whose own
\* environment variable is set.
ConfigSources ==
    {q \in [blob : {"absent", "invalid", "json"}, blobKeys : SUBSET DefaultedKeys,
            file : {"absent", "invalid", "json"}, fileKeys : SUBSET DefaultedKeys,
            varKeys : SUBSET DefaultedKeys] :
        /\ q.blob # "json" => q.blobKeys = {}
        /\ q.file # "json" => q.fileKeys = {}}

\* The source load_config returns from: the blob if it parses (line 16),
\* else the file if it loads (line 25), else the environment variables
ResolvedSource(q) ==
    IF q.blob = "json" THEN "blob"
    ELSE IF q.file = "json" THEN "file" ELSE "vars"

\* The settings the resolved source gives
GivenKeys(q) ==
    CASE ResolvedSource(q) = "blob" -> q.blobKeys
      [] ResolvedSource(q) = "file" -> q.fileKeys
      [] OTHER -> q.varKeys

\* load_config() over its sources: for each setting, whether the returned
\* dict holds the value the source gives ("given"), the default ("default")
\* or no such key ("missing").  json.loads / json.load results are returned
\* as they are; only the last branch fills in defaults.
load_config_from(q) ==
    [k \in DefaultedKeys |->
        IF k \in GivenKeys(q) THEN "given"
        ELSE IF ResolvedSource(q) = "vars" THEN "default" ELSE "missing"]

\* config[key], as handle_webhook reads check_signature, auto_pr_review and
\* edit_pr_desc (main.py lines 33, 45, 50)
Subscript(config, key) ==
    IF config[key] = "missing" THEN "KeyError" ELSE config[key]

\* get_config_value(key, default) = config.get(key, default), as get_api_base
\* reads api_base_url (endpoints.py line 6)
GetOrDefault(config, key) ==
    IF config[key] = "missing" THEN "default" ELSE config[key]

\* What the program finds for each defaulted setting
Lookup(config, key) ==
    IF key = "api_base_url" THEN GetOrDefault(config, key)
    ELSE Subscript(config, key)

---------------------------------------------------------------------------
(* Signature verifier: src/helpers/utils.py *)

\* is_github_signature_valid with the comparison dropped
is_github_signature_valid_nocheck(header, payload, webhook_secret) ==
    LET secret == IF webhook_secret = NoneStr
                  THEN get_config_value("webhook_secret")
                  ELSE webhook_secret
    IN  IF Falsy(secret) THEN TRUE
        ELSE header.present /\ header.text # <<>>

\* is_github_signature_valid(headers, payload, webhook_secret)
is_github_signature_valid(header, payload, webhook_secret) ==
    LET secret == IF webhook_secret = NoneStr
                  THEN get_config_value("webhook_secret")
                  ELSE webhook_secret
    IN  IF Falsy(secret) THEN TRUE
        ELSE IF ~header.present \/ header.text = <<>> THEN FALSE
        ELSE CompareDigest(header.text, ExpectedSignature(secret, payload))

---------------------------------------------------------------------------
(* Webhook payloads and their fields: src/helpers/utils.py *)

\* Shapes of the JSON body of a delivery: the top-level keys it has and the
\* fields of its "pull_request" object.  "not_json" is a body request.json()
\* cannot parse.
PrFields == {"number", "title", "body", "user", "head", "base", "html_url"}

Payload(shape) ==
    CASE shape = "complete" ->
           [top |-> {"action", "repository", "pull_request", "installation"},
            pr |-> PrFields]
      [] shape = "no_installation" ->
           [top |-> {"action", "repository", "pull_request"}, pr |-> PrFields]
      [] shape = "partial_pr" ->
           [top |-> {"action", "repository", "pull_request", "installation"},
            pr |-> {"number"}]
      [] shape = "no_pull_request" ->
           [top |-> {"action", "repository", "installation"}, pr |-> {}]
      [] OTHER -> [top |-> {}, pr |-> {}]

\* Results of the extractors: a value, None, or a KeyError raised
extract_repo_info(payload) ==
    IF "repository" \notin payload.top THEN "None" ELSE "value"

extract_pr_info(payload) ==
    IF "pull_request" \notin payload.top THEN "None"
    ELSE IF PrFields \subseteq payload.pr THEN "value" ELSE "KeyError"

extract_installation_id(payload) ==
    IF "installation" \notin payload.top THEN "None" ELSE "value"

\* Lines 31-37 / 90-96 of pr.py, which run outside any try block: the
\* extractors are called in order, then all([...]) is tested.
\*   "raise"  an extractor raised KeyError, which leaves the task
\*   "return" a field is missing, the task logs and returns
\*   "go"     the task goes on
Extraction(payload) ==
    IF extract_repo_info(payload) = "KeyError"
       \/ extract_pr_info(payload) = "KeyError"
       \/ extract_installation_id(payload) = "KeyError"
    THEN "raise"
    ELSE IF extract_repo_info(payload) = "value"
            /\ extract_pr_info(payload) = "value"
            /\ extract_installation_id(payload) = "value"
    THEN "go" ELSE "return"

---------------------------------------------------------------------------
(* PR descriptions: src/helpers/pr.py *)

\* A description is the sequence of its lines
RequiredSections == {"## Summary", "## Changes", "## Testing"}

Lines(d) == {d[i] : i \in 1..Len(d)}

\* needs_description_formatting(description)
needs_description_formatting(description) ==
    IF description = <<>> THEN TRUE
    ELSE ~(\A section \in RequiredSections : section \in Lines(description))

Descriptions == {<<>>, <<"## Summary", "text", "## Changes", "## Testing">>}

\* The lines re.search(r'##\s*<name>', description, re.IGNORECASE) finds a
\* match in, for the name of each required section: the heading as
\* needs_description_formatting looks for it, and the same heading in another
\* case or with another run of whitespace after the "##"
SearchMatches(section) ==
    CASE section = "## Summary" -> {"## Summary", "## summary", "##Summary"}
      [] section = "## Changes" -> {"## Changes", "##Changes"}
      [] section = "## Testing" -> {"## Testing", "## TESTING"}

\* re.search(...) is not None
HasSection(description, section) ==
    Lines(description) \cap SearchMatches(section) # {}

\* The lines a description is written with
DescLines == UNION {SearchMatches(section) : section \in RequiredSections}
             \cup {"text"}

\* The texts format_pr_description adds
SummaryComment == "<!-- Provide a brief summary of your changes -->"
ChangesComment == "<!-- List the changes you've made -->"
TestingComment == "<!-- Describe how you tested your changes -->"
Template ==
    <<"## Summary", SummaryComment, "",
      "## Changes", ChangesComment, "- ", "",
      "## Testing", TestingComment>>

\* format_pr_description(description)
format_pr_description(description) ==
    IF description = <<>> THEN Template
    ELSE LET has_summary == HasSection(description, "## Summary")
             has_changes == HasSection(description, "## Changes")
             has_testing == HasSection(description, "## Testing")
             d1 == IF ~has_summary
                   THEN <<"## Summary", SummaryComment, "">> \o description
                   ELSE description
             d2 == IF ~has_changes
                   THEN d1 \o <<"", "## Changes", ChangesComment, "- ">>
                   ELSE d1
         IN  IF ~has_testing
             THEN d2 \o <<"", "## Testing", TestingComment>>
             ELSE d2

---------------------------------------------------------------------------
(* The webhook handler: src/main.py *)

ACTIONS_TO_PROCESS_PR == {"opened", "synchronize", "reopened"}
ACTIONS_TO_UPDATE_DESC == {"opened", "edited"}

\* The gate left out: no delivery is turned away
SignatureRejectedNoGate(config, header, body) == FALSE

\* Line 33: config["check_signature"] and not is_github_signature_valid(...)
\* The verifier is called only when check_signature is true.
SignatureRejected(config, header, body) ==
    config.check_signature
    /\ ~is_github_signature_valid(header, body, config.webhook_secret)

\* Lines 45 and 50
WantsReview(config, event, action) ==
    event = "pull_request" /\ config.auto_pr_review
    /\ action \in ACTIONS_TO_PROCESS_PR

WantsDesc(config, event, action) ==
    event = "pull_request" /\ config.edit_pr_desc
    /\ action \in ACTIONS_TO_UPDATE_DESC

\* Line 52 adding process_pull_request a second time instead of
\* process_pr_desc
TasksAddedTwice(config, event, action) ==
    (IF WantsReview(config, event, action) THEN <<"pr">> ELSE <<>>)
    \o (IF WantsDesc(config, event, action) THEN <<"pr">> ELSE <<>>)

\* Lines 45-52: the tasks handle_webhook adds, in order
TasksAdded(config, event, action) ==
    (IF WantsReview(config, event, action) THEN <<"pr">> ELSE <<>>)
    \o (IF WantsDesc(config, event, action) THEN <<"desc">> ELSE <<>>)

\* How handle_webhook ends:
\*   "raised"             an exception left the handler (request.json() on
\*                        a body that is no JSON; payload['pull_request']
\*                        on lines 46 and 51)
\*   "returned_exception" line 37: the HTTPException object is returned
\*   "json_response"      line 58
HandlerEnd(config, d) ==
    IF d.shape = "not_json" THEN "raised"
    ELSE IF SignatureRejected(config, d.header, d.body) THEN "returned_exception"
    ELSE IF TasksAdded(config, d.event, d.action) # <<>>
            /\ "pull_request" \notin Payload(d.shape).top THEN "raised"
    ELSE "json_response"

\* The status of the HTTP response: an exception leaving the route is a 500;
\* a value the route returns, the returned HTTPException object included, is
\* sent with the route's status code, 200.  Only a raised HTTPException
\* would be sent with its own status_code.
StatusOk == 200
StatusServerError == 500

ResponseStatus(end) == IF end = "raised" THEN StatusServerError ELSE StatusOk

\* The background tasks that run after the response
TasksScheduled(config, d) ==
    IF HandlerEnd(config, d) = "json_response"
    THEN TasksAdded(config, d.event, d.action) ELSE <<>>

\* The configuration keys handle_webhook looks up in the dict it loaded
HandlerReads(config, d) ==
    IF d.shape = "not_json" THEN {}
    ELSE {"check_signature"}
         \cup (IF config.check_signature THEN {"webhook_secret"} ELSE {})
         \cup (IF ~SignatureRejected(config, d.header, d.body)
                  /\ d.event = "pull_request"
               THEN {"auto_pr_review", "edit_pr_desc"} ELSE {})

DeliveryHeaders ==
    {AbsentHeader, HeaderOf(ExpectedSignature("s3cr3t", "hello")),
     HeaderOf(ExpectedSignature("other", "hello"))}

Actions == {"opened", "edited", "synchronize", "closed"}

DeliveryInputs ==
    [event : {"pull_request"}, action : Actions, shape : {"complete"},
     desc : Descriptions, header : DeliveryHeaders, body : {"hello"}]
    \cup
    [event : {"pull_request"}, action : Actions,
     shape : {"no_installation", "partial_pr", "no_pull_request"},
     desc : {<<>>}, header : DeliveryHeaders, body : {"hello"}]
    \cup
    [event : {"push"}, action : {""}, shape : {"complete", "not_json"},
     desc : {<<>>}, header : DeliveryHeaders, body : {"hello"}]

NoInput ==
    [event |-> "", action |-> "", shape |-> "not_json", desc |-> <<>>,
     header |-> AbsentHeader, body |-> ""]

NoDelivery ==
    [phase |-> "idle", input |-> NoInput, checked |-> FALSE,
     verifier |-> "not_called", status |-> 0, scheduled |-> <<>>,
     outcomes |-> <<>>]

NoTask ==
    [kind |-> "none", pc |-> "none", token |-> NoneStr, expires_at |-> 0,
     fresh |-> FALSE, cause |-> ""]

NoQuery ==
    [secret |-> NoneStr, header |-> AbsentHeader, body |-> "hello",
     done |-> FALSE, result |-> FALSE]

NoConfigQuery ==
    [blob |-> "absent", blobKeys |-> {}, file |-> "absent", fileKeys |-> {},
     varKeys |-> {}, done |-> FALSE,
     found |-> [k \in DefaultedKeys |-> "unread"]]

NoKeyQuery == [key |-> <<>>, done |-> FALSE, signed |-> <<>>]

NoDescQuery == [desc |-> <<>>, done |-> FALSE, result |-> <<>>]

\* handle_webhook, from request.json() to the return: it has no suspension
\* point after the body has been read
ReceiveWebhook ==
    /\ served < MaxDeliveries
    /\ delivery.phase = "idle"
    /\ \E d \in DeliveryInputs :
         LET config == load_config
             end == HandlerEnd(config, d)
             called == d.shape # "not_json" /\ config.check_signature
         IN  /\ delivery' =
                  [phase |-> "answered", input |-> d,
                   checked |-> (d.shape # "not_json" /\ config.check_signature),
                   verifier |->
                      IF ~called THEN "not_called"
                      ELSE IF is_github_signature_valid(
                                  d.header, d.body, config.webhook_secret)
                           THEN "accepted" ELSE "rejected",
                   status |-> ResponseStatus(end),
                   scheduled |-> TasksScheduled(config, d),
                   outcomes |-> <<>>]
             /\ queue' = TasksScheduled(config, d)
             /\ readKeys' = HandlerReads(config, d)
    /\ served' = served + 1
    /\ UNCHANGED <<env, startConfig, envChanges, clock, task, log, vq, cq, kq, dq>>

---------------------------------------------------------------------------
(* Token issuer and client: src/helpers/install.py *)

StatusCreated == 201
StatusClientError == 400

\* Answers of the token-exchange endpoint and of the REST endpoints
ExchangeStatuses == {200, 201, 401, 500}
ApiStatuses == {200, 404}

\* generate_jwt, line 22: raises ValueError when a credential is missing
JwtRaises(config_app_id, config_private_key) ==
    Falsy(config_app_id) \/ Falsy(config_private_key)

\* response.raise_for_status(): raises for an error status, returns for 2xx
RaiseForStatus(status) == status >= StatusClientError

\* get_installation_token raising for server errors only
ExchangeRaisesServerOnly(status) ==
    status # StatusCreated /\ status >= StatusServerError

\* get_installation_token, lines 70-76: does the call end in an exception?
ExchangeRaises(status) ==
    status # StatusCreated /\ RaiseForStatus(status)

\* GitHubClient.ensure_token, line 107: is a token exchange made?  The
\* stored _token_expires_at is not looked at.
EnsureTokenExchanges(client) == Falsy(client.token)

\* GitHubClient.request, line 142
RequestRaises(status) == status >= StatusClientError

---------------------------------------------------------------------------
(* Background tasks: src/helpers/pr.py *)

\* Positions of a task at which it is about to await client.get/post/patch
RequestPcs == {"files", "comment", "status_success", "status_error", "patch"}
TryPcs == {"files", "comment", "status_success"}

\* analyze_pr_content_with_gemini, lines 185-190: pr_info is the dict built by
\* extract_pr_info, read there as pr_info.title, pr_info.body, pr_info.user,
\* pr_info.head, pr_info.base.  A dict has none of these attributes, so the
\* first of them raises AttributeError, outside the function's own try.
DictAttributes == {"keys", "values", "items", "get"}
AttributesRead == {"title", "body", "user", "head", "base"}
AnalysisRaises == ~(AttributesRead \subseteq DictAttributes)

\* Where an exception raised at pc takes the task: the except clause of
\* process_pull_request posts the "error" status, and an exception raised
\* there is swallowed; process_pr_desc only logs.
OnException(kind, pc) ==
    IF kind = "pr" /\ pc \in TryPcs THEN "status_error" ELSE "done"

\* Where the task goes once the request made at pc has returned
AfterRequest(kind, pc) ==
    CASE pc = "files" ->
           IF AnalysisRaises THEN OnException(kind, pc) ELSE "comment"
      [] pc = "comment" -> "status_success"
      [] OTHER -> "done"

\* First position of a task after the extraction
FirstPc(kind, d) ==
    IF kind = "pr" THEN "files"
    ELSE IF needs_description_formatting(d.desc) THEN "patch" ELSE "done"

\* The endpoint builders read api_base_url when the URL of the next request
\* is built, in the step that brings the task to that request
UrlReads(pc) == IF pc \in RequestPcs THEN {"api_base_url"} ELSE {}

\* process_pull_request / process_pr_desc up to their first await
StartTask ==
    /\ task.kind = "none" /\ queue # <<>>
    /\ LET kind == Head(queue)
           x == Extraction(Payload(delivery.input.shape))
           pc == CASE x = "raise" -> "escaped"
                   [] x = "return" -> "done"
                   [] OTHER -> FirstPc(kind, delivery.input)
       IN  /\ task' = [kind |-> kind, pc |-> pc, token |-> NoneStr,
                       expires_at |-> 0, fresh |-> FALSE,
                       cause |-> CASE x = "raise" -> "KeyError"
                                   [] x = "return" -> "missing"
                                   [] OTHER -> ""]
           /\ readKeys' = UrlReads(pc)
    /\ queue' = Tail(queue)
    /\ UNCHANGED <<env, startConfig, envChanges, clock, served, delivery,
                   log, vq, cq, kq, dq>>

\* The task moves from a failed step to pc, keeping its first failure
Fail(why, pc) ==
    [task EXCEPT !.pc = pc,
                 !.cause = IF task.cause = "" THEN why ELSE task.cause]

\* ensure_token with no token cached: generate_jwt, then the POST to the
\* access_tokens endpoint
TokenExchange ==
    /\ task.pc \in RequestPcs
    /\ EnsureTokenExchanges(task)
    /\ LET config == load_config
           next == OnException(task.kind, task.pc)
       IN  /\ \/ /\ JwtRaises(config.app_id, config.private_key)
                 /\ task' = Fail("jwt", next)
                 /\ readKeys' = {"app_id", "private_key"} \cup UrlReads(next)
                 /\ log' = log
              \/ /\ ~JwtRaises(config.app_id, config.private_key)
                 /\ \E status \in ExchangeStatuses :
                      /\ log' = Append(log, [task |-> task.kind,
                                             call |-> "exchange",
                                             status |-> status,
                                             expired |-> FALSE])
                      /\ IF ExchangeRaises(status)
                         THEN /\ task' = Fail("exchange", next)
                              /\ readKeys' = {"app_id", "private_key",
                                              "api_base_url"}
                         ELSE /\ task' = [task EXCEPT
                                            !.token = "ghs_token",
                                            !.expires_at = clock + TokenLifetime,
                                            !.fresh = TRUE]
                              /\ readKeys' = {"app_id", "private_key",
                                              "api_base_url"}
    /\ UNCHANGED <<env, startConfig, envChanges, clock, served, delivery,
                   queue, vq, cq, kq, dq>>

\* GitHubClient.request with the token ensure_token returned: the one it
\* has just exchanged (task.fresh), or the cached one, whose expiry it does
\* not look at.  "expired" records that a cached token was returned after
\* its expires_at.
ApiCall ==
    /\ task.pc \in RequestPcs
    /\ ~EnsureTokenExchanges(task)
    /\ \E status \in ApiStatuses :
         LET next == IF RequestRaises(status)
                     THEN OnException(task.kind, task.pc)
                     ELSE AfterRequest(task.kind, task.pc)
             after == IF RequestRaises(status) THEN Fail("api", next)
                      ELSE IF task.pc = "files" /\ AnalysisRaises
                      THEN Fail("analysis", next)
                      ELSE [task EXCEPT !.pc = next]
         IN  /\ log' = Append(log, [task |-> task.kind, call |-> task.pc,
                                    status |-> status,
                                    expired |-> ~task.fresh
                                                /\ clock >= task.expires_at])
             /\ task' = [after EXCEPT !.fresh = FALSE]
             /\ readKeys' = UrlReads(next)
    /\ UNCHANGED <<env, startConfig, envChanges, clock, served, delivery,
                   queue, vq, cq, kq, dq>>

\* The task has returned, or an exception has left it.  The tasks of one
\* response run one after the other, so an exception leaving a task also
\* ends the run of the ones added after it.
EndTask ==
    /\ task.pc \in {"done", "escaped"}
    /\ delivery' = [delivery EXCEPT !.outcomes =
                      Append(@, [kind |-> task.kind, pc |-> task.pc,
                                 cause |-> task.cause])]
    /\ queue' = IF task.pc = "escaped" THEN <<>> ELSE queue
    /\ task' = NoTask
    /\ readKeys' = {}
    /\ UNCHANGED <<env, startConfig, envChanges, clock, served, log, vq, cq, kq, dq>>

\* The delivery has been answered and all its tasks have ended
Finished ==
    delivery.phase = "answered" /\ task.kind = "none" /\ queue = <<>>

\* Nothing of a delivery outlives it: the payload, the clients and their
\* tokens are dropped with the tasks
FinishDelivery ==
    /\ Finished
    /\ delivery' = NoDelivery
    /\ log' = <<>>
    /\ readKeys' = {}
    /\ UNCHANGED <<env, startConfig, envChanges, clock, served, queue, task,
                   vq, cq, kq, dq>>

---------------------------------------------------------------------------
(* Environment *)

\* Time passes.  The program looks at the time only through the expiry of a
\* cached token, so the clock is advanced only while a client holds one.
Tick ==
    /\ clock < MaxClock
    /\ ~Falsy(task.token)
    /\ clock' = clock + 1
    /\ UNCHANGED <<env, startConfig, envChanges, readKeys, served, delivery,
                   queue, task, log, vq, cq, kq, dq>>

\* The environment (or config.json) is changed while the process runs, one
\* setting at a time
ChangeEnv ==
    /\ envChanges < MaxEnvChanges
    /\ \/ \E k \in BooleanKeys : env' = [env EXCEPT ![k] = ~@]
       \/ \E k \in StringKeys : \E v \in StringSettings(k) \ {env[k]} :
             env' = [env EXCEPT ![k] = v]
    /\ envChanges' = envChanges + 1
    /\ readKeys' = {}
    /\ UNCHANGED <<startConfig, clock, served, delivery, queue, task, log,
                   vq, cq, kq, dq>>

---------------------------------------------------------------------------
(* Specification of the service *)

Init ==
    /\ env \in StartConfigs
    /\ startConfig = env
    /\ readKeys = {}
    /\ envChanges = 0
    /\ clock = 0
    /\ served = 0
    /\ delivery = NoDelivery
    /\ queue = <<>>
    /\ task = NoTask
    /\ log = <<>>
    /\ vq = NoQuery
    /\ cq = NoConfigQuery
    /\ kq = NoKeyQuery
    /\ dq = NoDescQuery

Next ==
    \/ ReceiveWebhook
    \/ StartTask
    \/ TokenExchange
    \/ ApiCall
    \/ EndTask
    \/ FinishDelivery
    \/ Tick
    \/ ChangeEnv

Spec == Init /\ [][Next]_vars

---------------------------------------------------------------------------
(* Specification of the signature verifier alone: one call of             *)
(* is_github_signature_valid on each combination of configured secret,    *)
(* secret argument, header and body                                       *)

InitVerify ==
    /\ env \in [app_id : {"12345"}, private_key : {"pem"},
                webhook_secret : Secrets,
                check_signature : {TRUE}, auto_pr_review : {TRUE},
                edit_pr_desc : {TRUE}, api_base_url : {DefaultApiBase}]
    /\ startConfig = env
    /\ readKeys = {}
    /\ envChanges = 0
    /\ clock = 0
    /\ served = 0
    /\ delivery = NoDelivery
    /\ queue = <<>>
    /\ task = NoTask
    /\ log = <<>>
    /\ vq \in [secret : Secrets \cup {NoneStr}, header : SignatureHeaders,
               body : Bodies, done : {FALSE}, result : {FALSE}]
    /\ cq = NoConfigQuery
    /\ kq = NoKeyQuery
    /\ dq = NoDescQuery

Verify ==
    /\ ~vq.done
    /\ vq' = [vq EXCEPT !.done = TRUE,
                        !.result = is_github_signature_valid(
                                      vq.header, vq.body, vq.secret)]
    /\ UNCHANGED <<env, startConfig, envChanges, readKeys, clock, served,
                   delivery, queue, task, log, cq, kq, dq>>

NextVerify == Verify

SpecVerify == InitVerify /\ [][NextVerify]_vars

---------------------------------------------------------------------------
(* Specification of load_config alone: one call on each combination of     *)
(* sources, followed by the lookups of the defaulted settings              *)

\* The variables of the service, which the calls below leave alone
service == <<env, startConfig, readKeys, envChanges, clock, served, delivery,
             queue, task, log>>

ServiceIdle ==
    /\ env \in StartConfigs
    /\ startConfig = env
    /\ readKeys = {}
    /\ envChanges = 0
    /\ clock = 0
    /\ served = 0
    /\ delivery = NoDelivery
    /\ queue = <<>>
    /\ task = NoTask
    /\ log = <<>>

InitConfig ==
    /\ ServiceIdle
    /\ env.check_signature /\ env.webhook_secret = ""
    /\ vq = NoQuery
    /\ kq = NoKeyQuery
    /\ dq = NoDescQuery
    /\ \E q \in ConfigSources :
          cq = [blob |-> q.blob, blobKeys |-> q.blobKeys, file |-> q.file,
                fileKeys |-> q.fileKeys, varKeys |-> q.varKeys,
                done |-> FALSE, found |-> NoConfigQuery.found]

LoadConfig ==
    /\ ~cq.done
    /\ cq' = [cq EXCEPT !.done = TRUE,
                        !.found = [k \in DefaultedKeys |->
                                     Lookup(load_config_from(cq), k)]]
    /\ UNCHANGED <<service, vq, kq, dq>>

NextConfig == LoadConfig

SpecConfig == InitConfig /\ [][NextConfig]_vars

---------------------------------------------------------------------------
(* Specification of the key handling of generate_jwt alone: one call on    *)
(* each configured private key                                             *)

MaxKeyLen == 3

\* A private key is the sequence of its parts: the "-----BEGIN ..." header
\* line, base64 text, a real newline, or an escaped newline (a backslash
\* followed by the letter n)
EscapedNewline == "\\n"
RealNewline == "<LF>"
KeyParts == {"-----BEGIN", "MIIEow", RealNewline, EscapedNewline}

PrivateKeys == UNION {[1..n -> KeyParts] : n \in 1..MaxKeyLen}

\* "\\n" in private_key
HasEscapedNewline(key) == \E i \in DOMAIN key : key[i] = EscapedNewline

\* private_key.startswith("-----")
StartsWithDashes(key) == Len(key) > 0 /\ key[1] = "-----BEGIN"

\* private_key.replace("\\n", "\n")
ReplaceEscaped(key) ==
    [i \in DOMAIN key |->
        IF key[i] = EscapedNewline THEN RealNewline ELSE key[i]]

\* generate_jwt, lines 24-26: the key handed to jwt.encode
KeyToSign(private_key) ==
    IF HasEscapedNewline(private_key) /\ ~StartsWithDashes(private_key)
    THEN ReplaceEscaped(private_key)
    ELSE private_key

InitJwt ==
    /\ ServiceIdle
    /\ env.check_signature /\ env.webhook_secret = ""
    /\ vq = NoQuery
    /\ cq = NoConfigQuery
    /\ dq = NoDescQuery
    /\ \E k \in PrivateKeys : kq = [key |-> k, done |-> FALSE, signed |-> <<>>]

GenerateJwt ==
    /\ ~kq.done
    /\ kq' = [kq EXCEPT !.done = TRUE, !.signed = KeyToSign(kq.key)]
    /\ UNCHANGED <<service, vq, cq, dq>>

NextJwt == GenerateJwt

SpecJwt == InitJwt /\ [][NextJwt]_vars

---------------------------------------------------------------------------
(* Specification of the description formatter alone: process_pr_desc's     *)
(* check and rewrite of one description                                    *)

MaxDescLen == 2

DescriptionInputs == UNION {[1..n -> DescLines] : n \in 0..MaxDescLen}

InitDesc ==
    /\ ServiceIdle
    /\ env.check_signature /\ env.webhook_secret = ""
    /\ vq = NoQuery
    /\ cq = NoConfigQuery
    /\ kq = NoKeyQuery
    /\ \E d \in DescriptionInputs :
          dq = [desc |-> d, done |-> FALSE, result |-> <<>>]

\* new_body = format_pr_description(pr_info['body'])
FormatDescription ==
    /\ ~dq.done
    /\ dq' = [dq EXCEPT !.done = TRUE,
                        !.result = format_pr_description(dq.desc)]
    /\ UNCHANGED <<service, vq, cq, kq>>

NextDesc == FormatDescription

SpecDesc == InitDesc /\ [][NextDesc]_vars

---------------------------------------------------------------------------
(* Properties *)

\* The outbound calls made by the task(s) of one kind, in order
LogOf(kind) == SelectSeq(log, LAMBDA e : e.task = kind)

\* How many of the calls in seq are calls of the given name
Count(seq, call) == Cardinality({i \in DOMAIN seq : seq[i].call = call})

\* Has a task of this kind ended?
Ended(kind) ==
    \E i \in DOMAIN delivery.outcomes : delivery.outcomes[i].kind = kind

\* C1: a delivery that fails the signature check while checking is enabled
\* is answered with HTTP 401, and no background task is scheduled for it.
C1_Rejected401 ==
    (delivery.phase = "answered" /\ delivery.checked
     /\ delivery.verifier = "rejected")
    => (delivery.status = 401 /\ delivery.scheduled = <<>> /\ log = <<>>)

\* The secret is_github_signature_valid works with: its argument, or the
\* configured one when the argument is None
SecretInUse == IF vq.secret = NoneStr THEN env.webhook_secret ELSE vq.secret

\* C2: the verifier follows the policy table: no secret, accept; a secret
\* and no header, reject; both, accept exactly when the header is "sha256="
\* followed by the hex HMAC-SHA256 of the body under the secret; an accepted
\* delivery is rejected after any change of its body or of its header.
C2_PolicyTable ==
    vq.done =>
      /\ SecretInUse = "" => vq.result
      /\ (SecretInUse # "" /\ ~vq.header.present) => ~vq.result
      /\ (SecretInUse # "" /\ vq.header.present) =>
            (vq.result <=>
               vq.header.text = <<"sha256=", HmacSha256Hex(SecretInUse, vq.body)>>)
      /\ (SecretInUse # "" /\ vq.result) =>
            /\ \A b \in Bodies \ {vq.body} :
                  ~is_github_signature_valid(vq.header, b, vq.secret)
            /\ \A h \in SignatureHeaders \ {vq.header} :
                  ~is_github_signature_valid(h, vq.body, vq.secret)

\* A delivery signed with the configured secret has been accepted
C2_Witness ==
    vq.done /\ vq.result /\ SecretInUse = "s3cr3t" /\ vq.body = "hellp"

\* C3 as stated: no token exchange and no API call is made for a delivery
\* unless the signature verifier accepted it.
C3_OnlyAfterAccept ==
    log # <<>> => delivery.verifier = "accepted"

\* C3, amended: no task is scheduled or run and no token exchange or API call
\* is made for a delivery unless the verifier accepted it or signature
\* checking was disabled when it was handled (the verifier is then not
\* called); a delivery the verifier rejected schedules nothing.
C3_GateUnlessDisabled ==
    /\ (log # <<>> \/ task.kind # "none" \/ queue # <<>>
        \/ delivery.scheduled # <<>>)
       => (delivery.verifier = "accepted"
           \/ (~delivery.checked /\ delivery.verifier = "not_called"))
    /\ delivery.checked => delivery.verifier # "not_called"

\* An API call has been made for a delivery whose signature was checked and
\* matched the configured secret
C3_Witness ==
    /\ delivery.checked /\ delivery.verifier = "accepted"
    /\ delivery.input.header.present
    /\ \E i \in DOMAIN log : log[i].call = "files"

\* C4: for a client that obtained its token by exchange (answered 201),
\* ensure_token never returns the cached token once its expires_at has
\* passed: it exchanges it for a fresh one first.
C4_FreshAfterExpiry ==
    \A i \in DOMAIN log :
       (/\ log[i].call # "exchange"
        /\ \E j \in DOMAIN log :
              /\ j < i /\ log[j].task = log[i].task
              /\ log[j].call = "exchange" /\ log[j].status = 201)
       => ~log[i].expired

\* C5: a client holds a token only if the token-exchange call that gave it
\* was answered with 201.
C5_TokenOnlyFrom201 ==
    ~Falsy(task.token) =>
        LET mine == LogOf(task.kind)
        IN  \E i \in DOMAIN mine :
               /\ mine[i].call = "exchange" /\ mine[i].status = 201
               /\ \A j \in DOMAIN mine : j > i => mine[j].call # "exchange"

\* C6: in process_pull_request a failed token exchange is followed by no
\* further token exchange, and a failed API call by no further attempt at
\* the same call.
C6_NoRetry ==
    LET mine == LogOf("pr")
    IN  \A i, j \in DOMAIN mine :
          (i < j /\ mine[i].status >= 400) => mine[j].call # mine[i].call

\* C7: once the token-exchange endpoint has answered 401 to
\* process_pull_request, the task has failed with an authentication error
\* (at generate_jwt or at the exchange), and it makes no "list PR files"
\* request and posts no comment.
C7_Exchange401StopsTask ==
    LET mine == LogOf("pr")
    IN  (\E i \in DOMAIN mine :
            mine[i].call = "exchange" /\ mine[i].status = 401)
        => /\ \A i \in DOMAIN mine : mine[i].call \notin {"files", "comment"}
           /\ task.kind = "pr" =>
                 /\ task.pc \in {"status_error", "done"}
                 /\ task.cause \in {"exchange", "jwt"}
           /\ \A i \in DOMAIN delivery.outcomes :
                 delivery.outcomes[i].kind = "pr"
                 => /\ delivery.outcomes[i].pc = "done"
                    /\ delivery.outcomes[i].cause \in {"exchange", "jwt"}

\* process_pull_request has ended after a 401 from the token exchange
C7_Witness ==
    /\ Ended("pr")
    /\ \E i \in DOMAIN log :
          log[i].task = "pr" /\ log[i].call = "exchange" /\ log[i].status = 401

\* The deliveries C8 is about: pull_request "opened", complete payload,
\* signature checked and valid, review scheduled
C8_Delivery ==
    /\ delivery.phase = "answered"
    /\ delivery.input.event = "pull_request"
    /\ delivery.input.action = "opened"
    /\ delivery.input.shape = "complete"
    /\ delivery.checked /\ delivery.verifier = "accepted"
    /\ delivery.input.header.present
    /\ \E i \in DOMAIN delivery.scheduled : delivery.scheduled[i] = "pr"

\* C8 as stated, for the deliveries whose outbound calls all succeed and
\* whose tasks find the app credentials: over all the tasks of the delivery
\* there is exactly one token-exchange call and exactly one "list PR files"
\* call, before any comment.
C8_OneExchangePerDelivery ==
    (/\ C8_Delivery
     /\ Finished
     /\ \A i \in DOMAIN delivery.outcomes :
           delivery.outcomes[i].cause # "jwt"
     /\ \A i \in DOMAIN log :
           IF log[i].call = "exchange" THEN log[i].status = 201
           ELSE log[i].status < 400)
    => /\ Count(log, "exchange") = 1
       /\ Count(log, "files") = 1
       /\ \A i, j \in DOMAIN log :
             (log[i].call = "comment" /\ log[j].call \in {"exchange", "files"})
             => j < i

\* C8, amended: when the first ensure_token of the delivery's
\* process_pull_request task yields a token, that task makes exactly one
\* token-exchange call and then exactly one "list PR files" call, both
\* before any comment; process_pr_desc, scheduled for the same delivery,
\* exchanges a token of its own.
C8_OneExchangePerTask ==
    LET mine == LogOf("pr")
    IN  (/\ C8_Delivery /\ Ended("pr")
         /\ mine # <<>>
         /\ mine[1].call = "exchange" /\ mine[1].status < 400
         /\ \A i \in DOMAIN delivery.outcomes :
               delivery.outcomes[i].kind = "pr"
               => delivery.outcomes[i].cause # "jwt")
        => /\ Count(mine, "exchange") = 1
           /\ Count(mine, "files") = 1
           /\ Len(mine) >= 2 /\ mine[2].call = "files"

\* Such a delivery has been handled to its end, with a token exchange by
\* each of its two tasks
C8_Witness ==
    /\ C8_Delivery /\ Finished
    /\ Count(LogOf("pr"), "exchange") = 1
    /\ Count(LogOf("pr"), "files") = 1
    /\ Count(LogOf("desc"), "exchange") = 1

\* C9: no error raised in a background task leaves the task.
C9_NothingEscapes ==
    /\ task.pc # "escaped"
    /\ \A i \in DOMAIN delivery.outcomes : delivery.outcomes[i].pc # "escaped"

\* C10: every configuration read returns the value loaded at process start.
C10_ReadsStartConfig ==
    \A k \in readKeys : env[k] = startConfig[k]

\* C11: whichever source the configuration is resolved from, a defaulted
\* setting the source does not give is found with its default, and every
\* defaulted setting is found with a value.
C11_DefaultsFromEverySource ==
    cq.done =>
       \A k \in DefaultedKeys :
          /\ cq.found[k] \in {"given", "default"}
          /\ k \notin GivenKeys(cq) => cq.found[k] = "default"

\* C12: a delivery that passes the signature gate is answered with HTTP 200
\* (the "Webhook received" response), whatever its event and action, and no
\* outbound call of its tasks is made before the handler has returned.
C12_GatePassed200 ==
    (/\ delivery.phase = "answered"
     /\ delivery.input.shape # "not_json"
     /\ delivery.verifier # "rejected")
    => /\ delivery.status = 200
       /\ (delivery.outcomes = <<>> /\ task.kind = "none"
           /\ queue = delivery.scheduled) => log = <<>>

\* C13: a key with escaped newlines, a PEM key beginning with "-----BEGIN"
\* included, is handed to the signer with each escaped newline replaced by
\* a real one; a key without escaped newlines is passed unchanged.
C13_KeyNormalized ==
    kq.done =>
       /\ \A i \in DOMAIN kq.signed : kq.signed[i] # EscapedNewline
       /\ Len(kq.signed) = Len(kq.key)
       /\ \A i \in DOMAIN kq.key :
             kq.signed[i] = IF kq.key[i] = EscapedNewline THEN RealNewline
                            ELSE kq.key[i]

\* The process_pull_request task of the delivery has ended, it found the
\* payload complete and the app credentials, and every call it made
\* succeeded: the exchange was answered 201 and the API calls below 400
C14_SuccessPath ==
    /\ delivery.input.shape = "complete"
    /\ \E i \in DOMAIN delivery.outcomes :
          /\ delivery.outcomes[i].kind = "pr"
          /\ delivery.outcomes[i].cause \notin {"jwt", "missing", "KeyError"}
    /\ \A i \in DOMAIN LogOf("pr") :
          IF LogOf("pr")[i].call = "exchange" THEN LogOf("pr")[i].status = 201
          ELSE LogOf("pr")[i].status < 400

\* C14: on its success path process_pull_request posts exactly one comment
\* and after it a commit status "success", and posts no "error" status.
C14_CommentThenSuccess ==
    C14_SuccessPath
    => /\ Count(LogOf("pr"), "comment") = 1
       /\ Count(LogOf("pr"), "status_success") = 1
       /\ Count(LogOf("pr"), "status_error") = 0
       /\ \A i, j \in DOMAIN LogOf("pr") :
             (LogOf("pr")[i].call = "comment"
              /\ LogOf("pr")[j].call = "status_success") => i < j

\* C15: the formatter's output never needs formatting again, whatever the
\* description, one whose headings differ in case or spacing included, so the
\* "edited" delivery its PATCH causes leads to no further PATCH.
C15_FormattedNeedsNoFormatting ==
    dq.done => ~needs_description_formatting(dq.result)

====
